---- MODULE Spec2Model ----
(***************************************************************************)
(* The texture-image-unit allocator of osgEarth: TerrainResources and its  *)
(* scoped reservation TextureImageUnitReservation                           *)
(* (src/osgEarth/TextureCompositor.cpp).                                    *)
(*                                                                         *)
(* Every public operation is one action, the whole call.  A call reads the *)
(* capability and resets its out parameter before it takes the mutex, and  *)
(* does all of its reading and writing of the two bookkeeping sets under   *)
(* the mutex; the capability is fixed once the hardware has been queried.  *)
(* The caller-visible outcome of the latest call (its arguments, the bool  *)
(* it returned and the value left in out_unit) is kept in the variable     *)
(* last so that properties can speak about what a call returned.           *)
(***************************************************************************)
EXTENDS Integers, FiniteSets

VARIABLES
    _globallyReservedUnits,   \* std::set<int>: units reserved for everybody
    _perLayerReservedUnits,   \* std::map<const Layer*, std::set<int>>
    maxGPUTextureUnits,       \* what Capabilities::getMaxGPUTextureUnits() reports
    alive,                    \* the TerrainResources object has not been destroyed
    reservations,             \* the TextureImageUnitReservation objects of the callers
    last,                     \* the latest call: operation, arguments, results
    _reservedUnitsMutex,      \* Threading::Mutex: the thread holding it, or NULL
    calls                     \* per thread: the call it is in and how far it got

vars == << _globallyReservedUnits, _perLayerReservedUnits, maxGPUTextureUnits,
           alive, reservations, last, _reservedUnitsMutex, calls >>

\* What the whole-call actions leave alone, and what the per-thread steps
\* leave alone.
threadVars == << _reservedUnitsMutex, calls >>
callerVars == << alive, reservations, last >>

\* ---------------------------------------------------------------- bounds

\* The largest number of texture image units the hardware may report.
MaxUnits == 2

\* The layers of the map, the null layer pointer, the allocator pointer.
Layers == {"L1", "L2"}
NULL == "0L"
THIS == "this"

\* The threads that call into the allocator at the same time.
Threads == {"t1", "t2"}

\* The reservation objects callers may construct.
Handles == {"r1"}

\* The unit numbers callers pass to release and off-limits calls: the units
\* the hardware may have and one unit past the hardware's range.
UnitArgs == 0 .. MaxUnits

\* ---------------------------------------------------------------- helpers

\* A reservation object's fields right after its constructor ran.
NewReservation == [_unit |-> -1, _layer |-> NULL, _res |-> NULL]

\* The record kept about the latest call.
Call(op, unit, layer, h, ok, out, erased) ==
    [op |-> op, unit |-> unit, layer |-> layer, h |-> h,
     ok |-> ok, out |-> out, erased |-> erased]

\* The units of every layer: the loop over the map in the global reserves.
AllLayerUnits(perLayer) ==
    UNION { perLayer[l] : l \in DOMAIN perLayer }

\* A slip in the global reserves: the global set is left out of "taken".
TakenGlobal_LayersOnly(global, perLayer) ==
    AllLayerUnits(perLayer)

\* The set "taken" of the two global reserve forms.
TakenGlobal(global, perLayer) ==
    global \cup AllLayerUnits(perLayer)

\* std::map::operator[] : the map with an (empty) entry for key if it had none.
Subscript(perLayer, key) ==
    IF key \in DOMAIN perLayer
    THEN perLayer
    ELSE [l \in DOMAIN perLayer \cup {key} |->
            IF l = key THEN {} ELSE perLayer[l]]

\* A slip in the layer-bound reserves: "taken" collects every layer's
\* units, as the global reserves do.
TakenForLayer_EveryLayer(global, perLayer, layer) ==
    global \cup AllLayerUnits(perLayer)

\* A slip in the layer-bound reserves: the global set is left out of "taken".
TakenForLayer_LayerOnly(global, perLayer, layer) ==
    perLayer[layer]

\* The set "taken" of the two layer-bound reserve forms (perLayer already
\* has the layer's entry).
TakenForLayer(global, perLayer, layer) ==
    global \cup perLayer[layer]

\* Slips in the scan: it keeps the last unused unit instead of returning at
\* the first; it stops one unit early (i < maxUnits - 1); it runs one unit
\* too far (i <= maxUnits).
FirstUnused_Highest(taken, maxUnits) ==
    LET unused == { i \in 0 .. (maxUnits - 1) : i \notin taken }
    IN  IF unused = {} THEN -1
        ELSE CHOOSE i \in unused : \A j \in unused : i >= j

FirstUnused_ShortScan(taken, maxUnits) ==
    LET unused == { i \in 0 .. (maxUnits - 2) : i \notin taken }
    IN  IF unused = {} THEN -1
        ELSE CHOOSE i \in unused : \A j \in unused : i <= j

FirstUnused_LongScan(taken, maxUnits) ==
    LET unused == { i \in 0 .. maxUnits : i \notin taken }
    IN  IF unused = {} THEN -1
        ELSE CHOOSE i \in unused : \A j \in unused : i <= j

\* The scan "for i = 0 .. maxUnits-1: if i is not taken, return it";
\* -1 when the loop ends without a unit.
FirstUnused(taken, maxUnits) ==
    LET unused == { i \in 0 .. (maxUnits - 1) : i \notin taken }
    IN  IF unused = {} THEN -1
        ELSE CHOOSE i \in unused : \A j \in unused : i <= j

\* The unit a global reserve picks (-1: none): collect taken, then scan.
ScanGlobal(global, perLayer, maxUnits) ==
    FirstUnused(TakenGlobal(global, perLayer), maxUnits)

\* The unit a reserve for a non-null layer picks (-1: none).
ScanForLayer(global, perLayer, layer, maxUnits) ==
    FirstUnused(TakenForLayer(global, Subscript(perLayer, layer), layer), maxUnits)

\* A slip in the null-layer tests of the layer-bound reserves: the test is
\* missing, and a null layer is served like any layer.
IsNullLayer_Never(layer) ==
    FALSE

\* The test "layer == 0L" that opens the two layer-bound reserves.
IsNullLayer(layer) ==
    layer = NULL

\* A slip in the destructor: the observer pointer is used without locking
\* it, so the release is made whether or not the allocator still exists.
ShouldRelease_NoLock(r, allocatorAlive) ==
    r._unit >= 0

\* The destructor's test "_unit >= 0 && _res.lock(res)": the lock succeeds
\* when _res was set to the allocator and the allocator still exists.
ShouldRelease(r, allocatorAlive) ==
    r._unit >= 0 /\ r._res = THIS /\ allocatorAlive

\* A slip in the handle forms: the layer is not stored.
FilledReservation_NoLayer(i, layer) ==
    [_unit |-> i, _layer |-> NULL, _res |-> THIS]

\* What a successful reserve stores in the reservation object.
FilledReservation(i, layer) ==
    [_unit |-> i, _layer |-> layer, _res |-> THIS]

\* A slip in setTextureImageUnitOffLimits: only the global set is tested.
InUse_GlobalOnly(global, perLayer, unit) ==
    unit \in global

\* The two "already reserved" tests of setTextureImageUnitOffLimits.
InUse(global, perLayer, unit) ==
    \/ unit \in global
    \/ \E l \in DOMAIN perLayer : unit \in perLayer[l]

\* A slip in the release for a layer: the emptied entry is not erased.
EraseKey_Keep(perLayer, key) ==
    perLayer

\* std::map::erase(iterator)
EraseKey(perLayer, key) ==
    [l \in DOMAIN perLayer \ {key} |-> perLayer[l]]

\* A slip in releaseTextureImageUnit(unit): nothing is erased.
ReleasedGlobal_Nothing(global, unit) ==
    global

\* The global set after releaseTextureImageUnit(unit).
ReleasedGlobal(global, unit) ==
    global \ {unit}

\* A slip in the release for a layer: the layer's whole entry is erased,
\* not the one unit.
ReleasedForLayer_WholeEntry(perLayer, unit, layer) ==
    [l \in DOMAIN perLayer \ {layer} |-> perLayer[l]]

\* The per-layer map after the locked part of
\* releaseTextureImageUnit(unit, layer).
ReleasedForLayer(perLayer, unit, layer) ==
    IF layer \in DOMAIN perLayer
    THEN LET erased == [perLayer EXCEPT ![layer] = @ \ {unit}]
         IN  IF erased[layer] = {} THEN EraseKey(erased, layer) ELSE erased
    ELSE perLayer

\* A slip in the two-argument release: the null-layer branch is missing.
ReleasedGlobalVia_Never(global, unit, layer) ==
    global

\* The global set after releaseTextureImageUnit(unit, layer): a null layer
\* calls the one-argument release first.
ReleasedGlobalVia(global, unit, layer) ==
    IF layer = NULL THEN ReleasedGlobal(global, unit) ELSE global

\* How many elements the std::set::erase(unit) of a release removes (the
\* code discards the count).
Erased(global, perLayer, unit, layer) ==
    IF \/ layer = NULL /\ unit \in global
       \/ layer \in DOMAIN perLayer /\ unit \in perLayer[layer]
    THEN 1 ELSE 0

\* A thread that is in no call.
Idle == [pc |-> "idle", op |-> NULL, layer |-> NULL, unit |-> -1,
         maxUnits |-> -1, out |-> -1]

\* ---------------------------------------------------------------- Init

Init ==
    /\ _globallyReservedUnits = {}
    /\ _perLayerReservedUnits = [l \in {} |-> {}]
    /\ maxGPUTextureUnits \in 1 .. MaxUnits
    /\ alive = TRUE
    /\ reservations = [h \in {} |-> NewReservation]
    /\ last = Call("TerrainResources", -1, NULL, NULL, TRUE, -1, 0)
    /\ _reservedUnitsMutex = NULL
    /\ calls = [t \in Threads |-> Idle]

\* ---------------------------------------------------------------- actions

\* bool reserveTextureImageUnit(int& out_unit, const char* requestor)
reserveTextureImageUnit ==
    /\ UNCHANGED threadVars
    /\ alive
    /\ LET i == ScanGlobal(_globallyReservedUnits, _perLayerReservedUnits,
                            maxGPUTextureUnits)
       IN  /\ _globallyReservedUnits' =
                 IF i >= 0 THEN _globallyReservedUnits \cup {i}
                           ELSE _globallyReservedUnits
           /\ last' = Call("reserveTextureImageUnit", -1, NULL, NULL, i >= 0, i, 0)
    /\ UNCHANGED << _perLayerReservedUnits, maxGPUTextureUnits, alive, reservations >>

\* bool reserveTextureImageUnit(int& out_unit, const Layer* layer, const char*)
reserveTextureImageUnit_layer(layer) ==
    /\ UNCHANGED threadVars
    /\ alive
    /\ IF IsNullLayer(layer)
       THEN \* return reserveTextureImageUnit(out_unit, requestor);
            LET i == ScanGlobal(_globallyReservedUnits, _perLayerReservedUnits,
                                 maxGPUTextureUnits)
            IN  /\ _globallyReservedUnits' =
                      IF i >= 0 THEN _globallyReservedUnits \cup {i}
                                ELSE _globallyReservedUnits
                /\ UNCHANGED _perLayerReservedUnits
                /\ last' = Call("reserveTextureImageUnit_layer", -1, layer, NULL,
                                i >= 0, i, 0)
       ELSE LET perLayer == Subscript(_perLayerReservedUnits, layer)
                i        == ScanForLayer(_globallyReservedUnits,
                                         _perLayerReservedUnits, layer,
                                         maxGPUTextureUnits)
            IN  /\ _perLayerReservedUnits' =
                      IF i >= 0 THEN [perLayer EXCEPT ![layer] = @ \cup {i}]
                                ELSE perLayer
                /\ UNCHANGED _globallyReservedUnits
                /\ last' = Call("reserveTextureImageUnit_layer", -1, layer, NULL,
                                i >= 0, i, 0)
    /\ UNCHANGED << maxGPUTextureUnits, alive, reservations >>

\* bool reserveTextureImageUnit(TextureImageUnitReservation&, const char*)
reserveTextureImageUnit_reservation(h) ==
    /\ UNCHANGED threadVars
    /\ alive
    /\ h \in DOMAIN reservations
    /\ LET i == ScanGlobal(_globallyReservedUnits, _perLayerReservedUnits,
                            maxGPUTextureUnits)
       IN  /\ _globallyReservedUnits' =
                 IF i >= 0 THEN _globallyReservedUnits \cup {i}
                           ELSE _globallyReservedUnits
           /\ reservations' =
                 IF i >= 0
                 THEN [reservations EXCEPT ![h] = FilledReservation(i, NULL)]
                 ELSE [reservations EXCEPT ![h]._unit = -1]
           /\ last' = Call("reserveTextureImageUnit_reservation", -1, NULL, h,
                           i >= 0, i, 0)
    /\ UNCHANGED << _perLayerReservedUnits, maxGPUTextureUnits, alive >>

\* bool reserveTextureImageUnitForLayer(TextureImageUnitReservation&,
\*                                      const Layer*, const char*)
reserveTextureImageUnitForLayer(h, layer) ==
    /\ UNCHANGED threadVars
    /\ alive
    /\ h \in DOMAIN reservations
    /\ IF IsNullLayer(layer)
       THEN \* ILLEGAL USAGE: layer must be non-null
            /\ UNCHANGED << _perLayerReservedUnits, reservations >>
            /\ last' = Call("reserveTextureImageUnitForLayer", -1, layer, h,
                            FALSE, reservations[h]._unit, 0)
       ELSE LET perLayer == Subscript(_perLayerReservedUnits, layer)
                i        == ScanForLayer(_globallyReservedUnits,
                                         _perLayerReservedUnits, layer,
                                         maxGPUTextureUnits)
            IN  /\ _perLayerReservedUnits' =
                      IF i >= 0 THEN [perLayer EXCEPT ![layer] = @ \cup {i}]
                                ELSE perLayer
                /\ reservations' =
                      IF i >= 0
                      THEN [reservations EXCEPT ![h] = FilledReservation(i, layer)]
                      ELSE [reservations EXCEPT ![h]._unit = -1]
                /\ last' = Call("reserveTextureImageUnitForLayer", -1, layer, h,
                                i >= 0, i, 0)
    /\ UNCHANGED << _globallyReservedUnits, maxGPUTextureUnits, alive >>

\* void releaseTextureImageUnit(int unit)
releaseTextureImageUnit(unit) ==
    /\ UNCHANGED threadVars
    /\ alive
    /\ _globallyReservedUnits' = ReleasedGlobal(_globallyReservedUnits, unit)
    /\ last' = Call("releaseTextureImageUnit", unit, NULL, NULL, TRUE, -1,
                    Erased(_globallyReservedUnits, _perLayerReservedUnits, unit, NULL))
    /\ UNCHANGED << _perLayerReservedUnits, maxGPUTextureUnits, alive, reservations >>

\* void releaseTextureImageUnit(int unit, const Layer* layer)
releaseTextureImageUnit_layer(unit, layer) ==
    /\ UNCHANGED threadVars
    /\ alive
    /\ _globallyReservedUnits' =
          ReleasedGlobalVia(_globallyReservedUnits, unit, layer)
    /\ _perLayerReservedUnits' =
          ReleasedForLayer(_perLayerReservedUnits, unit, layer)
    /\ last' = Call("releaseTextureImageUnit_layer", unit, layer, NULL, TRUE, -1,
                    Erased(_globallyReservedUnits, _perLayerReservedUnits, unit, layer))
    /\ UNCHANGED << maxGPUTextureUnits, alive, reservations >>

\* bool setTextureImageUnitOffLimits(int unit)
setTextureImageUnitOffLimits(unit) ==
    /\ UNCHANGED threadVars
    /\ alive
    /\ LET inUse == InUse(_globallyReservedUnits, _perLayerReservedUnits, unit)
       IN  /\ _globallyReservedUnits' =
                 IF inUse THEN _globallyReservedUnits
                          ELSE _globallyReservedUnits \cup {unit}
           /\ last' = Call("setTextureImageUnitOffLimits", unit, NULL, NULL,
                           ~inUse, -1, 0)
    /\ UNCHANGED << _perLayerReservedUnits, maxGPUTextureUnits, alive, reservations >>

\* TextureImageUnitReservation::TextureImageUnitReservation()
TextureImageUnitReservation_ctor(h) ==
    /\ UNCHANGED threadVars
    /\ h \notin DOMAIN reservations
    /\ reservations' = [x \in DOMAIN reservations \cup {h} |->
                          IF x = h THEN NewReservation ELSE reservations[x]]
    /\ last' = Call("TextureImageUnitReservation", -1, NULL, h, TRUE, -1, 0)
    /\ UNCHANGED << _globallyReservedUnits, _perLayerReservedUnits,
                    maxGPUTextureUnits, alive >>

\* TextureImageUnitReservation::~TextureImageUnitReservation()
TextureImageUnitReservation_dtor(h) ==
    /\ UNCHANGED threadVars
    /\ h \in DOMAIN reservations
    /\ LET r == reservations[h]
       IN  IF ShouldRelease(r, alive)
           THEN /\ _globallyReservedUnits' =
                      ReleasedGlobalVia(_globallyReservedUnits, r._unit, r._layer)
                /\ _perLayerReservedUnits' =
                      ReleasedForLayer(_perLayerReservedUnits, r._unit, r._layer)
           ELSE UNCHANGED << _globallyReservedUnits, _perLayerReservedUnits >>
    /\ reservations' = [x \in DOMAIN reservations \ {h} |-> reservations[x]]
    /\ last' = Call("~TextureImageUnitReservation", reservations[h]._unit,
                    reservations[h]._layer, h, TRUE, -1,
                    IF ShouldRelease(reservations[h], alive)
                    THEN Erased(_globallyReservedUnits, _perLayerReservedUnits,
                                reservations[h]._unit, reservations[h]._layer)
                    ELSE 0)
    /\ UNCHANGED << maxGPUTextureUnits, alive >>

\* TerrainResources::~TerrainResources(): the observer pointers to the
\* object no longer lock.
TerrainResources_dtor ==
    /\ UNCHANGED threadVars
    /\ alive
    /\ alive' = FALSE
    /\ last' = Call("~TerrainResources", -1, NULL, NULL, TRUE, -1, 0)
    /\ UNCHANGED << _globallyReservedUnits, _perLayerReservedUnits,
                    maxGPUTextureUnits, reservations >>

Next ==
    \/ reserveTextureImageUnit
    \/ \E layer \in Layers \cup {NULL} : reserveTextureImageUnit_layer(layer)
    \/ \E h \in Handles : reserveTextureImageUnit_reservation(h)
    \/ \E h \in Handles, layer \in Layers \cup {NULL} :
          reserveTextureImageUnitForLayer(h, layer)
    \/ \E unit \in UnitArgs : releaseTextureImageUnit(unit)
    \/ \E unit \in UnitArgs, layer \in Layers \cup {NULL} :
          releaseTextureImageUnit_layer(unit, layer)
    \/ \E unit \in UnitArgs : setTextureImageUnitOffLimits(unit)
    \/ \E h \in Handles : TextureImageUnitReservation_ctor(h)
    \/ \E h \in Handles : TextureImageUnitReservation_dtor(h)
    \/ TerrainResources_dtor

Spec == Init /\ [][Next]_vars

\* ------------------------------------------------- the calls, step by step
\* The same calls made by several threads at once.  A call is cut where
\* another thread can get in between: before the lock is taken, and, so
\* that the lock is what keeps the scan and the insertion together, between
\* the scan and the insertion.  A reserve through a reservation object
\* writes the thread's own object; its unit is the out of the call.

ReserveOps ==
    {"reserveTextureImageUnit", "reserveTextureImageUnit_layer",
     "reserveTextureImageUnit_reservation", "reserveTextureImageUnitForLayer"}

ReleaseOps ==
    {"releaseTextureImageUnit", "releaseTextureImageUnit_layer"}

\* The call scans and inserts as the global forms do.
ScansGlobally(c) ==
    \/ c.op \in {"reserveTextureImageUnit", "reserveTextureImageUnit_reservation"}
    \/ c.op = "reserveTextureImageUnit_layer" /\ IsNullLayer(c.layer)

\* A slip: the capability is not read before the lock is taken (the local
\* is still unset when the thread waits for the mutex).
ReadMaxUnits_Deferred(capability) ==
    -1

\* unsigned maxUnits = ...getCapabilities().getMaxGPUTextureUnits();
ReadMaxUnits(capability) ==
    capability

\* A slip: the mutex does not exclude (the lock is taken on a local mutex).
MutexFree_Always(mutex) ==
    TRUE

\* A ScopedMutexLock can be constructed: no thread holds the mutex.
MutexFree(mutex) ==
    mutex = NULL

\* A thread enters a reserve and runs it up to the lock: the null-layer
\* test, out_unit = -1 (reservation._unit = -1), the read of maxUnits.
EnterReserve(t, op, layer) ==
    /\ calls[t].pc = "idle"
    /\ op \in {"reserveTextureImageUnit", "reserveTextureImageUnit_reservation"}
          => layer = NULL
    /\ calls' = [calls EXCEPT ![t] =
          IF op = "reserveTextureImageUnitForLayer" /\ IsNullLayer(layer)
          THEN \* ILLEGAL USAGE: return false
               [pc |-> "ret", op |-> op, layer |-> layer, unit |-> -1,
                maxUnits |-> -1, out |-> -1]
          ELSE [pc |-> "lock", op |-> op, layer |-> layer, unit |-> -1,
                maxUnits |-> ReadMaxUnits(maxGPUTextureUnits), out |-> -1]]
    /\ UNCHANGED << _globallyReservedUnits, _perLayerReservedUnits,
                    maxGPUTextureUnits, _reservedUnitsMutex >>
    /\ UNCHANGED callerVars

\* A thread enters a release.  releaseTextureImageUnit(unit) and the
\* null-layer branch of releaseTextureImageUnit(unit, layer) go to the lock
\* of the one-argument release; a release for a layer goes to the lock of
\* the two-argument release.
EnterRelease(t, op, unit, layer) ==
    /\ calls[t].pc = "idle"
    /\ op = "releaseTextureImageUnit" => layer = NULL
    /\ calls' = [calls EXCEPT ![t] =
          [pc |-> IF op = "releaseTextureImageUnit" \/ layer = NULL
                  THEN "lock" ELSE "lock2",
           op |-> op, layer |-> layer, unit |-> unit,
           maxUnits |-> -1, out |-> -1]]
    /\ UNCHANGED << _globallyReservedUnits, _perLayerReservedUnits,
                    maxGPUTextureUnits, _reservedUnitsMutex >>
    /\ UNCHANGED callerVars

\* Threading::ScopedMutexLock exclusiveLock( _reservedUnitsMutex );
Lock(t) ==
    /\ calls[t].pc \in {"lock", "lock2"}
    /\ MutexFree(_reservedUnitsMutex)
    /\ _reservedUnitsMutex' = t
    /\ calls' = [calls EXCEPT ![t].pc = IF @ = "lock" THEN "locked" ELSE "locked2"]
    /\ UNCHANGED << _globallyReservedUnits, _perLayerReservedUnits,
                    maxGPUTextureUnits >>
    /\ UNCHANGED callerVars

\* Under the lock: collect taken (a layer form makes the layer's entry with
\* operator[]) and find the first unused unit, with the maxUnits read
\* before the lock.
ReserveScan(t) ==
    /\ calls[t].pc = "locked"
    /\ calls[t].op \in ReserveOps
    /\ LET c == calls[t]
       IN  IF ScansGlobally(c)
           THEN /\ calls' = [calls EXCEPT
                     ![t].pc = "found",
                     ![t].out = ScanGlobal(_globallyReservedUnits,
                                           _perLayerReservedUnits, c.maxUnits)]
                /\ UNCHANGED _perLayerReservedUnits
           ELSE /\ calls' = [calls EXCEPT
                     ![t].pc = "found",
                     ![t].out = ScanForLayer(_globallyReservedUnits,
                                             _perLayerReservedUnits, c.layer,
                                             c.maxUnits)]
                /\ _perLayerReservedUnits' =
                      Subscript(_perLayerReservedUnits, c.layer)
    /\ UNCHANGED << _globallyReservedUnits, maxGPUTextureUnits,
                    _reservedUnitsMutex >>
    /\ UNCHANGED callerVars

\* Under the lock: insert the unit found, if any, and return, which
\* releases the lock.
ReserveInsert(t) ==
    /\ calls[t].pc = "found"
    /\ LET c == calls[t]
           perLayer == Subscript(_perLayerReservedUnits, c.layer)
       IN  IF ScansGlobally(c)
           THEN /\ _globallyReservedUnits' =
                      IF c.out >= 0 THEN _globallyReservedUnits \cup {c.out}
                                    ELSE _globallyReservedUnits
                /\ UNCHANGED _perLayerReservedUnits
           ELSE /\ _perLayerReservedUnits' =
                      IF c.out >= 0
                      THEN [perLayer EXCEPT ![c.layer] = @ \cup {c.out}]
                      ELSE _perLayerReservedUnits
                /\ UNCHANGED _globallyReservedUnits
    /\ _reservedUnitsMutex' = NULL
    /\ calls' = [calls EXCEPT ![t].pc = "ret"]
    /\ UNCHANGED maxGPUTextureUnits
    /\ UNCHANGED callerVars

\* The reserve has returned to its caller.
Return(t) ==
    /\ calls[t].pc = "ret"
    /\ calls' = [calls EXCEPT ![t] = Idle]
    /\ UNCHANGED << _globallyReservedUnits, _perLayerReservedUnits,
                    maxGPUTextureUnits, _reservedUnitsMutex >>
    /\ UNCHANGED callerVars

\* releaseTextureImageUnit(unit) under its lock; the two-argument release
\* that called it goes on to its own lock.
ReleaseErase(t) ==
    /\ calls[t].pc = "locked"
    /\ calls[t].op \in ReleaseOps
    /\ _globallyReservedUnits' =
          ReleasedGlobal(_globallyReservedUnits, calls[t].unit)
    /\ _reservedUnitsMutex' = NULL
    /\ calls' = [calls EXCEPT ![t] =
          IF @.op = "releaseTextureImageUnit" THEN Idle
          ELSE [@ EXCEPT !.pc = "lock2"]]
    /\ UNCHANGED << _perLayerReservedUnits, maxGPUTextureUnits >>
    /\ UNCHANGED callerVars

\* releaseTextureImageUnit(unit, layer) under its lock: find the layer,
\* erase the unit, erase the entry if empty.
ReleaseFind(t) ==
    /\ calls[t].pc = "locked2"
    /\ _perLayerReservedUnits' =
          ReleasedForLayer(_perLayerReservedUnits, calls[t].unit, calls[t].layer)
    /\ _reservedUnitsMutex' = NULL
    /\ calls' = [calls EXCEPT ![t] = Idle]
    /\ UNCHANGED << _globallyReservedUnits, maxGPUTextureUnits >>
    /\ UNCHANGED callerVars

NextThreads ==
    \/ \E t \in Threads, op \in ReserveOps, layer \in Layers \cup {NULL} :
          EnterReserve(t, op, layer)
    \/ \E t \in Threads, op \in ReleaseOps, unit \in 0 .. (MaxUnits - 1),
          layer \in Layers \cup {NULL} : EnterRelease(t, op, unit, layer)
    \/ \E t \in Threads : Lock(t)
    \/ \E t \in Threads : ReserveScan(t)
    \/ \E t \in Threads : ReserveInsert(t)
    \/ \E t \in Threads : Return(t)
    \/ \E t \in Threads : ReleaseErase(t)
    \/ \E t \in Threads : ReleaseFind(t)

SpecThreads == Init /\ [][NextThreads]_vars

\* Callers that reserve through reservation objects only, with the
\* allocator alive throughout: objects are constructed, used for reserves
\* (any number of times each) and destroyed.
NextHandles ==
    \/ \E h \in Handles : TextureImageUnitReservation_ctor(h)
    \/ \E h \in Handles : reserveTextureImageUnit_reservation(h)
    \/ \E h \in Handles, layer \in Layers \cup {NULL} :
          reserveTextureImageUnitForLayer(h, layer)
    \/ \E h \in Handles : TextureImageUnitReservation_dtor(h)

SpecHandles == Init /\ [][NextHandles]_vars

\* ---------------------------------------------------------------- properties

\* The units a layer has reserved: none when the map has no entry for it.
UnitsOf(perLayer, l) ==
    IF l \in DOMAIN perLayer THEN perLayer[l] ELSE {}

\* Kinds of call, read off the record of a call.
IsGlobalReserve(c) ==
    \/ c.op \in {"reserveTextureImageUnit", "reserveTextureImageUnit_reservation"}
    \/ c.op = "reserveTextureImageUnit_layer" /\ c.layer = NULL

IsLayerReserve(c) ==
    /\ c.op \in {"reserveTextureImageUnit_layer", "reserveTextureImageUnitForLayer"}
    /\ c.layer # NULL

IsHandleReserve(c) ==
    c.op \in {"reserveTextureImageUnit_reservation", "reserveTextureImageUnitForLayer"}

\* The call c is a release of unit u: releaseGlobal(u), releaseForLayer(u, null)
\* or the drop of a reservation object holding u.
IsReleaseOf(c, u) ==
    \/ c.op = "releaseTextureImageUnit" /\ c.unit = u
    \/ c.op = "releaseTextureImageUnit_layer" /\ c.layer = NULL /\ c.unit = u
    \/ c.op = "~TextureImageUnitReservation" /\ c.unit = u

\* The call c reaches releaseTextureImageUnit(u) on a live allocator: called
\* directly, through the null-layer branch of the two-argument release, or
\* by the destructor of a reservation object holding (u, null).
CallsReleaseGlobal(c, u) ==
    \/ c.op = "releaseTextureImageUnit" /\ c.unit = u
    \/ c.op = "releaseTextureImageUnit_layer" /\ c.layer = NULL /\ c.unit = u
    \/ c.op = "~TextureImageUnitReservation" /\ c.layer = NULL /\ c.unit = u

\* C1: two successful global reservations (raw, raw with a null layer, or
\* through a reservation object) never return the same unit u unless u was
\* released between them.  Stated step by step: a successful global
\* reservation returns a unit that was not in the global set and leaves it
\* there, and a unit leaves the global set only in a step that is a release
\* of that unit; so a unit handed out globally stays in the set, and cannot
\* be handed out globally again, until such a release.
C1_GlobalReservationsDistinct ==
    [][
        /\ (IsGlobalReserve(last') /\ last'.ok) =>
              /\ last'.out \notin _globallyReservedUnits
              /\ last'.out \in _globallyReservedUnits'
        /\ \A u \in _globallyReservedUnits \ _globallyReservedUnits' :
              IsReleaseOf(last', u)
    ]_vars

\* C1 witness: the reservation object still carries unit 0 from its global
\* reservation, the unit was released behind its back, and a raw global
\* reservation has just returned 0 again.
C1_Witness ==
    /\ last.op = "reserveTextureImageUnit" /\ last.ok /\ last.out = 0
    /\ "r1" \in DOMAIN reservations
    /\ reservations["r1"] = [_unit |-> 0, _layer |-> NULL, _res |-> THIS]

\* C2: the global set is disjoint from every layer's set, in every state.
C2_GlobalDisjointFromLayers ==
    \A l \in DOMAIN _perLayerReservedUnits :
        _globallyReservedUnits \cap _perLayerReservedUnits[l] = {}

\* C2 witness: an off-limits call has just succeeded while the global set
\* and both layers hold units.
C2_Witness ==
    /\ last.op = "setTextureImageUnitOffLimits" /\ last.ok
    /\ Cardinality(_globallyReservedUnits) >= 2
    /\ \A l \in Layers : UnitsOf(_perLayerReservedUnits, l) # {}

\* C3: first fit.  A successful reserve returns the smallest index of
\* [0, maxUnits) outside the taken set of its scope and inserts exactly that
\* index into the scope's set: global forms scan G and every layer's set
\* and insert into G; layer forms scan G and the layer's own set and insert
\* into the layer's set.  Nothing else changes in G or in any layer's set.
C3_FirstFit ==
    [][
        LET i == last'.out
            l == last'.layer
            takenAll == _globallyReservedUnits \cup
                        UNION { UnitsOf(_perLayerReservedUnits, x) : x \in Layers }
            takenLayer == _globallyReservedUnits \cup UnitsOf(_perLayerReservedUnits, l)
        IN  /\ (IsGlobalReserve(last') /\ last'.ok) =>
                  /\ i \in 0 .. (maxGPUTextureUnits - 1)
                  /\ i \notin takenAll
                  /\ \A j \in 0 .. (i - 1) : j \in takenAll
                  /\ _globallyReservedUnits' = _globallyReservedUnits \cup {i}
                  /\ _perLayerReservedUnits' = _perLayerReservedUnits
            /\ (IsLayerReserve(last') /\ last'.ok) =>
                  /\ i \in 0 .. (maxGPUTextureUnits - 1)
                  /\ i \notin takenLayer
                  /\ \A j \in 0 .. (i - 1) : j \in takenLayer
                  /\ _globallyReservedUnits' = _globallyReservedUnits
                  /\ \A x \in Layers :
                        UnitsOf(_perLayerReservedUnits', x) =
                           IF x = l THEN UnitsOf(_perLayerReservedUnits, x) \cup {i}
                                    ELSE UnitsOf(_perLayerReservedUnits, x)
            /\ (IsHandleReserve(last') /\ last'.ok) =>
                  reservations'[last'.h]._unit = i
    ]_vars

\* C3 witness: a reserve for L1 has just returned 1, skipping the globally
\* reserved 0, although L2 holds 1.
C3_Witness ==
    /\ last.op = "reserveTextureImageUnitForLayer" /\ last.ok
    /\ last.layer = "L1" /\ last.out = 1
    /\ _globallyReservedUnits = {0}
    /\ UnitsOf(_perLayerReservedUnits, "L2") = {1}

\* C4: a reserve with a valid argument fails exactly on exhaustion, and
\* says so in band.  A global reserve fails (false, -1; the reservation
\* object's unit is -1) exactly when every index of [0, maxUnits) is in G or
\* in some layer's set; a reserve for a non-null layer fails exactly when
\* every index is in G or in that layer's set.  A failed reserve adds no
\* unit to G nor to any layer's set.
C4_FailsOnlyWhenExhausted ==
    [][
        LET l == last'.layer
            range == 0 .. (maxGPUTextureUnits - 1)
            takenAll == _globallyReservedUnits \cup
                        UNION { UnitsOf(_perLayerReservedUnits, x) : x \in Layers }
            takenLayer == _globallyReservedUnits \cup UnitsOf(_perLayerReservedUnits, l)
            nothingAdded ==
                /\ _globallyReservedUnits' = _globallyReservedUnits
                /\ \A x \in Layers : UnitsOf(_perLayerReservedUnits', x) =
                                     UnitsOf(_perLayerReservedUnits, x)
            inBand ==
                /\ last'.ok <=> last'.out # -1
                /\ ~last'.ok => nothingAdded
                /\ (~last'.ok /\ IsHandleReserve(last')) =>
                       reservations'[last'.h]._unit = -1
        IN  /\ IsGlobalReserve(last') =>
                  /\ ~last'.ok <=> range \subseteq takenAll
                  /\ inBand
            /\ IsLayerReserve(last') =>
                  /\ ~last'.ok <=> range \subseteq takenLayer
                  /\ inBand
    ]_vars

\* C4 witness: a reserve for a layer has just failed because G and the
\* layer's own set cover the range, both being non-empty.
C4_Witness ==
    /\ IsLayerReserve(last) /\ ~last.ok /\ last.out = -1
    /\ _globallyReservedUnits # {}
    /\ UnitsOf(_perLayerReservedUnits, last.layer) # {}

\* C5: every successful reserve, of any form, returns a unit u with
\* 0 <= u < maxUnits, and a reservation object never carries a unit outside
\* -1 .. maxUnits - 1.
C5_UnitInRange ==
    /\ ((IsGlobalReserve(last) \/ IsLayerReserve(last)) /\ last.ok) =>
           /\ 0 <= last.out /\ last.out < maxGPUTextureUnits
           /\ IsHandleReserve(last) => reservations[last.h]._unit = last.out
    /\ \A h \in DOMAIN reservations :
           /\ -1 <= reservations[h]._unit
           /\ reservations[h]._unit < maxGPUTextureUnits

\* C5 witness: a reserve has just returned the last unit of the range while
\* a unit past the range is in G (marked off-limits).
C5_Witness ==
    /\ (IsGlobalReserve(last) \/ IsLayerReserve(last)) /\ last.ok
    /\ last.out = maxGPUTextureUnits - 1
    /\ maxGPUTextureUnits \in _globallyReservedUnits

\* The per-layer maps that differ from perLayer only in what a layer other
\* than l holds: no entry, or an entry with any set of units.
OtherLayerMaps(perLayer, l) ==
    { [x \in (DOMAIN perLayer \ {o}) \cup (IF entry THEN {o} ELSE {}) |->
          IF x = o THEN units ELSE perLayer[x]] :
        o \in Layers \ {l},
        entry \in BOOLEAN,
        units \in SUBSET (0 .. (MaxUnits - 1)) }

\* C6: what a reserve for a non-null layer L returns depends on G, on L's own
\* set and on maxUnits only.  In every reserve step for a layer, the unit
\* returned is the unit the scan picks from any state that agrees on G and
\* on L's set, whatever the other layer holds (no entry, an empty entry or
\* any set of units).  With nothing reserved globally, a layer holding
\* nothing gets 0 and a layer holding just 0 gets 1, so two layers get 0 and
\* 0, then 1 and 1.
C6_LayerReserveIgnoresOtherLayers ==
    [][
        IsLayerReserve(last') =>
            LET l == last'.layer
            IN  /\ \A other \in OtherLayerMaps(_perLayerReservedUnits, l) :
                      (UnitsOf(other, l) = UnitsOf(_perLayerReservedUnits, l)) =>
                          ScanForLayer(_globallyReservedUnits, other, l,
                                       maxGPUTextureUnits) = last'.out
                /\ (/\ _globallyReservedUnits = {}
                    /\ UnitsOf(_perLayerReservedUnits, l) = {}) => last'.out = 0
                /\ (/\ _globallyReservedUnits = {}
                    /\ UnitsOf(_perLayerReservedUnits, l) = {0}
                    /\ maxGPUTextureUnits >= 2) => last'.out = 1
    ]_vars

\* C6 witness: nothing is reserved globally, both layers hold 0 and 1, and
\* the latest call is the reserve that returned 1 to the second of them.
C6_Witness ==
    /\ IsLayerReserve(last) /\ last.ok /\ last.out = 1
    /\ _globallyReservedUnits = {}
    /\ \A l \in Layers : UnitsOf(_perLayerReservedUnits, l) = {0, 1}

\* C7: setTextureImageUnitOffLimits(u) returns true exactly when u is in
\* neither G nor any layer's set; on true u has been inserted into G and
\* nothing else changed, on false nothing changed.  While u is in G no
\* reserve of any form returns u, and u leaves G only in a step that reaches
\* releaseTextureImageUnit(u).
C7_OffLimits ==
    [][
        LET u == last'.unit
            free == /\ u \notin _globallyReservedUnits
                    /\ \A l \in Layers : u \notin UnitsOf(_perLayerReservedUnits, l)
        IN  /\ last'.op = "setTextureImageUnitOffLimits" =>
                  /\ last'.ok <=> free
                  /\ _perLayerReservedUnits' = _perLayerReservedUnits
                  /\ _globallyReservedUnits' =
                        IF last'.ok THEN _globallyReservedUnits \cup {u}
                                    ELSE _globallyReservedUnits
            /\ \A g \in _globallyReservedUnits :
                  /\ ((IsGlobalReserve(last') \/ IsLayerReserve(last')) /\ last'.ok)
                         => last'.out # g
                  /\ g \notin _globallyReservedUnits' => CallsReleaseGlobal(last', g)
    ]_vars

\* C7 witness: unit 0 has just been marked off-limits while a layer holds
\* unit 1 and L2 holds nothing.
C7_Witness ==
    /\ last.op = "setTextureImageUnitOffLimits" /\ last.ok /\ last.unit = 0
    /\ _globallyReservedUnits = {0}
    /\ UnitsOf(_perLayerReservedUnits, "L1") = {1}
    /\ UnitsOf(_perLayerReservedUnits, "L2") = {}

\* C8: release returns a unit to its scope.  After releaseTextureImageUnit(u)
\* of a unit u of [0, maxUnits) that was in G, u is in neither G nor any
\* layer's set, and a global reserve made as the very next call succeeds
\* with a unit <= u, with u itself when every lower index is taken.  After
\* releaseTextureImageUnit(u, L) of a unit that was in L's set, a reserve
\* for L made as the very next call succeeds with a unit <= u.
C8_ReleaseThenReserve ==
    [][
        LET u == last.unit
            range == 0 .. (maxGPUTextureUnits - 1)
            takenAll == _globallyReservedUnits \cup
                        UNION { UnitsOf(_perLayerReservedUnits, x) : x \in Layers }
            takenLayer == _globallyReservedUnits \cup
                          UnitsOf(_perLayerReservedUnits, last.layer)
        IN  /\ (/\ last.op = "releaseTextureImageUnit"
                /\ last.erased = 1 /\ u \in range) =>
                  /\ u \notin takenAll
                  /\ IsGlobalReserve(last') =>
                        /\ last'.ok /\ 0 <= last'.out /\ last'.out <= u
                        /\ (\A j \in 0 .. (u - 1) : j \in takenAll) => last'.out = u
            /\ (/\ last.op = "releaseTextureImageUnit_layer" /\ last.layer # NULL
                /\ last.erased = 1) =>
                  /\ u \notin takenLayer
                  /\ (IsLayerReserve(last') /\ last'.layer = last.layer) =>
                        /\ last'.ok /\ 0 <= last'.out /\ last'.out <= u
                        /\ (\A j \in 0 .. (u - 1) : j \in takenLayer) => last'.out = u
    ]_vars

\* C8 witness: unit 1 has just been released from G while unit 0 is still
\* globally reserved, so the next global reserve has to return 1.
C8_Witness ==
    /\ last.op = "releaseTextureImageUnit" /\ last.erased = 1 /\ last.unit = 1
    /\ 0 \in _globallyReservedUnits
    /\ maxGPUTextureUnits >= 2

\* C9 (as claimed): a release of a unit that is not reserved in the
\* addressed scope leaves G and the per-layer map exactly as they were:
\* releaseTextureImageUnit(u) with u not in G, and
\* releaseTextureImageUnit(u, L) with L not a key of the map or u not in L's
\* set; and releasing twice leaves what releasing once leaves.
C9_ReleaseOfUnreservedIsNoOp ==
    [][
        /\ (/\ last'.op = "releaseTextureImageUnit"
            /\ last'.unit \notin _globallyReservedUnits) =>
               /\ _globallyReservedUnits' = _globallyReservedUnits
               /\ _perLayerReservedUnits' = _perLayerReservedUnits
        /\ (/\ last'.op = "releaseTextureImageUnit_layer" /\ last'.layer # NULL
            /\ \/ last'.layer \notin DOMAIN _perLayerReservedUnits
               \/ last'.unit \notin _perLayerReservedUnits[last'.layer]) =>
               /\ _globallyReservedUnits' = _globallyReservedUnits
               /\ _perLayerReservedUnits' = _perLayerReservedUnits
        /\ last'.op \in {"releaseTextureImageUnit", "releaseTextureImageUnit_layer"} =>
               /\ ReleasedGlobalVia(_globallyReservedUnits', last'.unit, last'.layer)
                     = _globallyReservedUnits'
               /\ ReleasedForLayer(_perLayerReservedUnits', last'.unit, last'.layer)
                     = _perLayerReservedUnits'
    ]_vars

\* C10: a successful reserve through a reservation object stores the unit,
\* the layer (null for the global form) and the allocator in it, and the
\* unit is then in the set of that scope.  Destroying a reservation object
\* that carries a unit >= 0 while its allocator is alive does what
\* releaseTextureImageUnit(unit, layer) does: the unit is no longer in G
\* (null layer) or in the layer's set, and nothing else leaves or enters any
\* set.  When the unit was still in that set, it is free in its scope
\* afterwards, so a reserve in that scope picks a unit <= it.
C10_HandleStoresAndReleases ==
    [][
        /\ (IsHandleReserve(last') /\ last'.ok) =>
              /\ reservations'[last'.h] =
                    [_unit |-> last'.out, _layer |-> last'.layer, _res |-> THIS]
              /\ IF last'.layer = NULL
                 THEN last'.out \in _globallyReservedUnits'
                 ELSE last'.out \in UnitsOf(_perLayerReservedUnits', last'.layer)
        /\ (/\ last'.op = "~TextureImageUnitReservation"
            /\ reservations[last'.h]._unit >= 0
            /\ reservations[last'.h]._res = THIS /\ alive) =>
              LET u == reservations[last'.h]._unit
                  l == reservations[last'.h]._layer
              IN  /\ _globallyReservedUnits' =
                        IF l = NULL THEN _globallyReservedUnits \ {u}
                                    ELSE _globallyReservedUnits
                  /\ \A x \in Layers :
                        UnitsOf(_perLayerReservedUnits', x) =
                           IF x = l THEN UnitsOf(_perLayerReservedUnits, x) \ {u}
                                    ELSE UnitsOf(_perLayerReservedUnits, x)
                  /\ (l = NULL /\ u \in _globallyReservedUnits) =>
                        ScanGlobal(_globallyReservedUnits', _perLayerReservedUnits',
                                   maxGPUTextureUnits) \in 0 .. u
                  /\ (l # NULL /\ u \in UnitsOf(_perLayerReservedUnits, l)) =>
                        ScanForLayer(_globallyReservedUnits', _perLayerReservedUnits',
                                     l, maxGPUTextureUnits) \in 0 .. u
    ]_vars

\* C10 witness: a reservation object holding unit 1 of layer L1 has just
\* been destroyed and took the unit out of L1's set; L1 still holds 0, and
\* unit 1 stays reserved for L2.
C10_Witness ==
    /\ last.op = "~TextureImageUnitReservation" /\ alive
    /\ last.unit = 1 /\ last.layer = "L1" /\ last.erased = 1
    /\ UnitsOf(_perLayerReservedUnits, "L1") = {0}
    /\ 1 \in UnitsOf(_perLayerReservedUnits, "L2")

\* C11: destroying a reservation object after its allocator was destroyed
\* is inert, whatever the object carries: G and the per-layer map are left
\* as they are.  The same holds, while the allocator is alive, for an object
\* whose unit is -1 (never reserved, or the last reserve through it failed).
C11_DropWithoutAllocatorIsInert ==
    [][
        (/\ last'.op = "~TextureImageUnitReservation"
         /\ \/ ~alive
            \/ reservations[last'.h]._unit = -1) =>
            /\ _globallyReservedUnits' = _globallyReservedUnits
            /\ _perLayerReservedUnits' = _perLayerReservedUnits
            /\ alive' = alive
            /\ last'.erased = 0
    ]_vars

\* C11 witness: the allocator was destroyed, then a reservation object
\* holding unit 0 of the global scope was destroyed, and 0 is still in G.
C11_Witness ==
    /\ last.op = "~TextureImageUnitReservation" /\ ~alive
    /\ last.unit = 0 /\ last.layer = NULL
    /\ 0 \in _globallyReservedUnits

\* C12: the raw layer-bound reserve called with a null layer behaves as the
\* global reserve: it returns the unit the global scan picks from the same
\* state, puts it into G, leaves the per-layer map as it is, and makes no
\* entry for the null layer.
C12_NullLayerReserveIsGlobal ==
    [][
        (last'.op = "reserveTextureImageUnit_layer" /\ last'.layer = NULL) =>
            LET i == ScanGlobal(_globallyReservedUnits, _perLayerReservedUnits,
                                maxGPUTextureUnits)
            IN  /\ last'.out = i
                /\ last'.ok <=> i >= 0
                /\ _globallyReservedUnits' =
                      IF i >= 0 THEN _globallyReservedUnits \cup {i}
                                ELSE _globallyReservedUnits
                /\ _perLayerReservedUnits' = _perLayerReservedUnits
                /\ NULL \notin DOMAIN _perLayerReservedUnits'
    ]_vars

\* C12 witness: a null-layer reserve has just returned 1 into G, skipping
\* unit 0, which a layer holds.
C12_Witness ==
    /\ last.op = "reserveTextureImageUnit_layer" /\ last.layer = NULL
    /\ last.ok /\ last.out = 1
    /\ _globallyReservedUnits = {1}
    /\ UnitsOf(_perLayerReservedUnits, "L1") = {0}

\* C13: releaseTextureImageUnit(unit, null) has the effect of
\* releaseTextureImageUnit(unit): unit leaves G, and the per-layer map, key
\* set included, is unchanged.
C13_NullLayerReleaseIsGlobal ==
    [][
        (last'.op = "releaseTextureImageUnit_layer" /\ last'.layer = NULL) =>
            /\ _globallyReservedUnits' = _globallyReservedUnits \ {last'.unit}
            /\ _perLayerReservedUnits' = _perLayerReservedUnits
    ]_vars

\* C13 witness: a null-layer release has just taken unit 0 out of G while
\* a layer holds unit 1.
C13_Witness ==
    /\ last.op = "releaseTextureImageUnit_layer" /\ last.layer = NULL
    /\ last.unit = 0 /\ last.erased = 1
    /\ 0 \notin _globallyReservedUnits
    /\ \E l \in Layers : 1 \in UnitsOf(_perLayerReservedUnits, l)

\* C14: reserveTextureImageUnitForLayer called with a null layer returns
\* false and reserves nothing: G, the per-layer map and the reservation
\* object are unchanged, whatever units are free.
C14_HandleReserveRejectsNullLayer ==
    [][
        (last'.op = "reserveTextureImageUnitForLayer" /\ last'.layer = NULL) =>
            /\ ~last'.ok
            /\ _globallyReservedUnits' = _globallyReservedUnits
            /\ _perLayerReservedUnits' = _perLayerReservedUnits
            /\ reservations' = reservations
    ]_vars

\* C14 witness: the call has just been refused although no unit at all is
\* reserved.
C14_Witness ==
    /\ last.op = "reserveTextureImageUnitForLayer" /\ last.layer = NULL
    /\ ~last.ok
    /\ _globallyReservedUnits = {}
    /\ \A l \in Layers : UnitsOf(_perLayerReservedUnits, l) = {}

\* C18: releaseTextureImageUnit(unit, layer) with a non-null layer that has
\* an entry in the per-layer map removes unit from the layer's set; the
\* entry is erased if the set is empty afterwards, and stays, with the
\* remaining units, if it is not.
C18_LayerReleaseErasesEmptiedEntry ==
    [][
        (/\ last'.op = "releaseTextureImageUnit_layer" /\ last'.layer # NULL
         /\ last'.layer \in DOMAIN _perLayerReservedUnits) =>
            LET l    == last'.layer
                rest == _perLayerReservedUnits[l] \ {last'.unit}
            IN  IF rest = {}
                THEN l \notin DOMAIN _perLayerReservedUnits'
                ELSE /\ l \in DOMAIN _perLayerReservedUnits'
                     /\ _perLayerReservedUnits'[l] = rest
    ]_vars

\* C18 witness: L1 held just unit 0; the release of 0 for L1 has erased
\* L1's entry, and L2's entry {0, 1} is in place.
C18_Witness ==
    /\ last.op = "releaseTextureImageUnit_layer" /\ last.layer = "L1"
    /\ last.unit = 0 /\ last.erased = 1
    /\ DOMAIN _perLayerReservedUnits = {"L2"}
    /\ _perLayerReservedUnits["L2"] = {0, 1}

\* C19 (as claimed): the per-layer map never holds a layer whose set is
\* empty.
C19_NoEmptyLayerEntry ==
    \A l \in DOMAIN _perLayerReservedUnits : _perLayerReservedUnits[l] # {}

\* C20: releases are confined to their scope.  releaseTextureImageUnit(u)
\* leaves the per-layer map as it is; releaseTextureImageUnit(u, L) with a
\* non-null L leaves G and every other layer's entry as they are; and no
\* release takes any unit other than u out of any set.
C20_ReleaseConfinedToScope ==
    [][
        /\ last'.op = "releaseTextureImageUnit" =>
              /\ _perLayerReservedUnits' = _perLayerReservedUnits
              /\ _globallyReservedUnits \ _globallyReservedUnits' \subseteq {last'.unit}
        /\ (last'.op = "releaseTextureImageUnit_layer" /\ last'.layer # NULL) =>
              /\ _globallyReservedUnits' = _globallyReservedUnits
              /\ \A x \in Layers \ {last'.layer} :
                    /\ x \in DOMAIN _perLayerReservedUnits' <=>
                          x \in DOMAIN _perLayerReservedUnits
                    /\ UnitsOf(_perLayerReservedUnits', x) =
                          UnitsOf(_perLayerReservedUnits, x)
              /\ UnitsOf(_perLayerReservedUnits, last'.layer)
                    \ UnitsOf(_perLayerReservedUnits', last'.layer)
                       \subseteq {last'.unit}
        /\ (last'.op = "releaseTextureImageUnit_layer" /\ last'.layer = NULL) =>
              /\ _globallyReservedUnits \ _globallyReservedUnits' \subseteq {last'.unit}
              /\ \A x \in Layers :
                    UnitsOf(_perLayerReservedUnits', x) =
                       UnitsOf(_perLayerReservedUnits, x)
    ]_vars

\* C20 witness: both layers held units 0 and 1; unit 0 has just been
\* released for L1, which keeps 1, and L2 still holds 0 and 1.
C20_Witness ==
    /\ last.op = "releaseTextureImageUnit_layer" /\ last.layer = "L1"
    /\ last.unit = 0 /\ last.erased = 1
    /\ UnitsOf(_perLayerReservedUnits, "L1") = {1}
    /\ UnitsOf(_perLayerReservedUnits, "L2") = {0, 1}

\* C16 (as claimed): units reserved through reservation objects are
\* returned.  In a run in which units are reserved through reservation
\* objects only and the allocator stays alive, once every reservation
\* object has been destroyed no unit remains in G or in any layer's set,
\* whatever reserves were made through the objects (repeated ones on the
\* same object and failed ones included).
C16_HandleUnitsReturned ==
    (DOMAIN reservations = {}) =>
        /\ _globallyReservedUnits = {}
        /\ \A l \in Layers : UnitsOf(_perLayerReservedUnits, l) = {}

\* ---------------------------------------------------------- threads
\* Thread t is in a reserve that has returned true and not yet handed its
\* unit back to idle code.
Succeeded(t) ==
    /\ calls[t].pc = "ret"
    /\ calls[t].op \in ReserveOps
    /\ calls[t].out >= 0

\* The two reserves draw on one scope: one of them is global, or both are
\* for the same layer.
SameScope(c, d) ==
    \/ ScansGlobally(c)
    \/ ScansGlobally(d)
    \/ c.layer = d.layer

\* The unit thread t was given is still reserved where it was reserved.
Held(t) ==
    IF ScansGlobally(calls[t])
    THEN calls[t].out \in _globallyReservedUnits
    ELSE calls[t].out \in UnitsOf(_perLayerReservedUnits, calls[t].layer)

\* Thread t completes a reserve with a unit in this step.
Reserves(t) ==
    /\ calls[t].pc = "found"
    /\ calls'[t].pc = "ret"
    /\ calls'[t].out >= 0

\* C15 (as the code has it): when a thread reserves a unit while another
\* thread's reserve has succeeded and not yet returned, and that other
\* unit has not been released, the two units differ under every
\* interleaving provided one of the reserves is global or both are for the
\* same layer; two reserves for different layers may be given the same
\* unit.
C15_ConcurrentReservesDistinctInScope ==
    [][ \A t, u \in Threads :
          ( /\ t # u
            /\ Reserves(t)
            /\ Succeeded(u) /\ Held(u)
            /\ SameScope(calls[t], calls[u]) )
              => calls'[t].out # calls[u].out ]_vars

C15_Witness ==
    \E t, u \in Threads :
        /\ t # u
        /\ Succeeded(t) /\ Succeeded(u)
        /\ Held(t) /\ Held(u)
        /\ ScansGlobally(calls[t]) /\ ~ScansGlobally(calls[u])
        /\ calls[t].out # calls[u].out

\* C15 as stated: any two overlapping reserves that both succeed return
\* different units.
C15_ConcurrentReservesDistinct ==
    [][ \A t, u \in Threads :
          ( /\ t # u
            /\ Reserves(t)
            /\ Succeeded(u) /\ Held(u) )
              => calls'[t].out # calls[u].out ]_vars

\* Thread t is in a reserve and has read maxUnits for it.
HasReadMaxUnits(t) ==
    /\ calls[t].op \in ReserveOps
    /\ calls[t].maxUnits >= 0

====
